---- MODULE Spec2Model ----
(***************************************************************************)
(* Auto-Editor (src/auto_editor.py): removal of silences from a video.     *)
(*                                                                         *)
(* The model follows one run of main(): the command line fixes the three   *)
(* millisecond settings, the audio is extracted, the silence detector      *)
(* returns the silent ranges, iterate_silence_segments walks them once in  *)
(* pretend mode (the estimate) and, when the user answers Y, once more for *)
(* real (the clips), the clips are concatenated, the adjusted audio is     *)
(* exported and read back, the video is written and the two temporary      *)
(* audio files are removed.  All times are integers in milliseconds.       *)
(***************************************************************************)
EXTENDS Integers, Sequences, FiniteSets

(* ----------------------------- bounds ---------------------------------- *)

\* Longest media duration enumerated (ms).
MaxDur == 5

\* Most silent ranges in one enumerated list.
MaxSilences == 2

\* Largest enumerated --silence_threshold.
MaxThreshold == 3

\* Largest enumerated --padding_left / --padding_right.
MaxPad == 3

(* ------------------------ program constants ---------------------------- *)

\* argparse defaults of main().
DefaultSilenceThreshold == 700
DefaultPaddingLeft == 250
DefaultPaddingRight == 250

VARIABLES
    duration,           \* len(audio_segment) = video.duration, in ms
    silent_ranges,      \* what silence.detect_silence returns for the audio
    SILENCE_THRESHOLD,  \* module globals set by main()
    PADDING_LEFT,
    PADDING_RIGHT,
    pc,                 \* position of the run
    pretend,            \* iterate_silence_segments' parameter
    idx,                \* position of the for loop in silent_ranges (1-based)
    last_end,           \* locals of iterate_silence_segments
    silence_amount,
    clips,
    estimate,           \* silence_amount as edit_video_and_audio holds it
    user_response,
    temp_audio,         \* TEMP_AUDIO_PATH exists
    temp_edited_audio,  \* TEMP_EDITED_AUDIO_PATH exists
    output,             \* OUTPUT_PATH: "none", "partial" or "written"
    phases,             \* steps of the run that completed
    warned              \* "Couldn't clean up the audio temp file" was printed

vars == <<duration, silent_ranges, SILENCE_THRESHOLD, PADDING_LEFT,
          PADDING_RIGHT, pc, pretend, idx, last_end, silence_amount, clips,
          estimate, user_response, temp_audio, temp_edited_audio, output,
          phases, warned>>

(* --------------------------- the inputs -------------------------------- *)

Max(a, b) == IF a >= b THEN a ELSE b

\* The detector's contract: start < end, ascending, not overlapping.
Ascending(ranges) ==
    /\ \A i \in 1..Len(ranges) : ranges[i][1] >= 0 /\ ranges[i][1] < ranges[i][2]
    /\ \A i \in 1..(Len(ranges) - 1) : ranges[i][2] <= ranges[i + 1][1]

WellFormed(d, ranges, t, pl, pr) ==
    /\ Ascending(ranges)
    /\ \A i \in 1..Len(ranges) : ranges[i][2] <= d
    /\ t >= 0 /\ pl >= 0 /\ pr >= 0

\* The lists of at most n ranges that keep the contract within lo..hi.
RECURSIVE AscendingLists(_, _, _)
AscendingLists(n, lo, hi) ==
    IF n = 0 THEN {<<>>}
    ELSE {<<>>} \cup
         UNION {UNION {{<<<<s, e>>>> \o rest : rest \in AscendingLists(n - 1, e, hi)} :
                       e \in (s + 1)..hi} :
                s \in lo..(hi - 1)}

\* The enumerated runs: <<duration, silent_ranges, threshold, left, right>>.
SmallRuns ==
    UNION {{<<d, l, t, pl, pr>> : l \in AscendingLists(MaxSilences, 0, d),
                                  t \in 0..MaxThreshold, pl \in 0..MaxPad,
                                  pr \in 0..MaxPad} :
           d \in 1..MaxDur}

\* Runs with the default settings on a 3 s recording.
DefaultRuns ==
    {<<3000, l, DefaultSilenceThreshold, DefaultPaddingLeft, DefaultPaddingRight>> :
        l \in {<<>>, <<<<1000, 2000>>>>, <<<<1000, 1300>>>>,
               <<<<1000, 2000>>, <<2100, 2950>>>>}}

WellFormedRuns == SmallRuns \cup DefaultRuns

\* Runs whose settings may be negative: argparse's type=int takes any
\* integer, and main() stores it unchecked.
AnyRuns ==
    UNION {{<<d, l, t, pl, pr>> : l \in AscendingLists(2, 0, d),
                                  t \in -1..1, pl \in -1..1, pr \in -1..1} :
           d \in 1..3}

(* ------------------- iterate_silence_segments -------------------------- *)

\* end_clip = max(last_end, start - PADDING_LEFT)
EndClip(le, start, pl) == Max(le, start - pl)

\* if last_end / 1000 < end_clip / 1000  (true division: the order of the
\* two integers)
AddsClip(le, ec) == le < ec

\* silence_duration = end - end_clip
SilenceDuration(end, ec) == end - ec

\* The comparison as >=: a silence exactly as long as the threshold is cut.
ReachesThreshold(sd, t) == sd >= t

\* if silence_duration > SILENCE_THRESHOLD
ExceedsThreshold(sd, t) == sd > t

\* The right padding added to the end of the silence, not taken from it.
CutLastEndAdded(end, pr) == end + pr

\* last_end = end - PADDING_RIGHT
CutLastEnd(end, pr) == end - pr

\* The difference taken the wrong way round.
CutAmountReversed(le, ec) == ec - le

\* silence_amount += last_end - end_clip
CutAmount(le, ec) == le - ec

\* The silence_amount the whole walk returns, as a function of its inputs.
RECURSIVE SilenceAmountFrom(_, _, _, _, _, _)
SilenceAmountFrom(ranges, i, le, t, pl, pr) ==
    IF i > Len(ranges) THEN 0
    ELSE LET ec == EndClip(le, ranges[i][1], pl)
             sd == SilenceDuration(ranges[i][2], ec)
         IN IF ExceedsThreshold(sd, t)
            THEN CutAmount(CutLastEnd(ranges[i][2], pr), ec)
                 + SilenceAmountFrom(ranges, i + 1, CutLastEnd(ranges[i][2], pr), t, pl, pr)
            ELSE SilenceAmountFrom(ranges, i + 1, ec, t, pl, pr)

SilenceAmountOf(ranges, t, pl, pr) == SilenceAmountFrom(ranges, 1, 0, t, pl, pr)

\* The locals at the top of iterate_silence_segments.
EnterIterate(p) ==
    /\ pretend' = p
    /\ idx' = 1
    /\ last_end' = 0
    /\ clips' = <<>>
    /\ silence_amount' = 0

\* One pass of the for loop.
IterateStep ==
    /\ pc = "iterate"
    /\ idx <= Len(silent_ranges)
    /\ LET start == silent_ranges[idx][1]
           end == silent_ranges[idx][2]
           ec == EndClip(last_end, start, PADDING_LEFT)
           sd == SilenceDuration(end, ec)
       IN /\ clips' = IF AddsClip(last_end, ec) /\ ~pretend
                      THEN Append(clips, <<last_end, ec>>)
                      ELSE clips
          /\ IF ExceedsThreshold(sd, SILENCE_THRESHOLD)
             THEN /\ last_end' = CutLastEnd(end, PADDING_RIGHT)
                  /\ silence_amount' =
                         silence_amount + CutAmount(CutLastEnd(end, PADDING_RIGHT), ec)
             ELSE /\ last_end' = ec
                  /\ silence_amount' = silence_amount
    /\ idx' = idx + 1
    /\ UNCHANGED <<duration, silent_ranges, SILENCE_THRESHOLD, PADDING_LEFT,
                   PADDING_RIGHT, pc, pretend, estimate, user_response,
                   temp_audio, temp_edited_audio, output, phases, warned>>

\* The pretend pass returns: edit_video_and_audio keeps silence_amount and
\* prints the projected length.
PretendReturn ==
    /\ pc = "iterate"
    /\ pretend
    /\ idx > Len(silent_ranges)
    /\ estimate' = silence_amount
    /\ phases' = phases \cup {"estimate"}
    /\ pc' = "confirm"
    /\ UNCHANGED <<duration, silent_ranges, SILENCE_THRESHOLD, PADDING_LEFT,
                   PADDING_RIGHT, pretend, idx, last_end, silence_amount, clips,
                   user_response, temp_audio, temp_edited_audio, output, warned>>

\* The real pass appends the rest of the video and returns.
MaterializeReturn ==
    /\ pc = "iterate"
    /\ ~pretend
    /\ idx > Len(silent_ranges)
    /\ clips' = Append(clips, <<last_end, duration>>)
    /\ phases' = phases \cup {"materialize"}
    /\ pc' = "concat"
    /\ UNCHANGED <<duration, silent_ranges, SILENCE_THRESHOLD, PADDING_LEFT,
                   PADDING_RIGHT, pretend, idx, last_end, silence_amount,
                   estimate, user_response, temp_audio, temp_edited_audio,
                   output, warned>>

(* ------------------------ the rest of the run -------------------------- *)

\* extract_audio_from_video: the audio is written to TEMP_AUDIO_PATH.
ExtractAudio ==
    /\ pc = "extract"
    /\ temp_audio' = TRUE
    /\ pc' = "detect"
    /\ UNCHANGED <<duration, silent_ranges, SILENCE_THRESHOLD, PADDING_LEFT,
                   PADDING_RIGHT, pretend, idx, last_end, silence_amount, clips,
                   estimate, user_response, temp_edited_audio, output, phases,
                   warned>>

\* VideoFileClip, detect_silence, and the call of the pretend pass.
DetectSilence ==
    /\ pc = "detect"
    /\ EnterIterate(TRUE)
    /\ pc' = "iterate"
    /\ UNCHANGED <<duration, silent_ranges, SILENCE_THRESHOLD, PADDING_LEFT,
                   PADDING_RIGHT, estimate, user_response, temp_audio,
                   temp_edited_audio, output, phases, warned>>

\* What the user can type at the prompt.
RawAnswers == {"Y", "y", " y ", "N", "n", "yes", ""}

\* input(...).strip().upper()
StripUpper(a) ==
    CASE a \in {"Y", "y", " y "} -> "Y"
      [] a \in {"N", "n"} -> "N"
      [] a = "yes" -> "YES"
      [] OTHER -> ""

\* Every answer but N renders.
RendersUnlessNo(r) == r # "N"

\* if user_response == "Y"
Renders(r) == r = "Y"

\* The prompt; on Y the real pass is entered, else the run goes to the cleanup.
Confirm ==
    /\ pc = "confirm"
    /\ \E a \in RawAnswers :
        /\ user_response' = StripUpper(a)
        /\ IF Renders(StripUpper(a))
           THEN /\ EnterIterate(FALSE)
                /\ phases' = phases \cup {"confirm"}
                /\ pc' = "iterate"
           ELSE /\ pc' = "cleanup_edited"
                /\ phases' = phases \cup {"decline"}
                /\ UNCHANGED <<pretend, idx, last_end, silence_amount, clips>>
    /\ UNCHANGED <<duration, silent_ranges, SILENCE_THRESHOLD, PADDING_LEFT,
                   PADDING_RIGHT, estimate, temp_audio, temp_edited_audio,
                   output, warned>>

\* final_video = concatenate_videoclips(clips)
ConcatenateClips ==
    /\ pc = "concat"
    /\ phases' = phases \cup {"concat"}
    /\ pc' = "export"
    /\ UNCHANGED <<duration, silent_ranges, SILENCE_THRESHOLD, PADDING_LEFT,
                   PADDING_RIGHT, pretend, idx, last_end, silence_amount, clips,
                   estimate, user_response, temp_audio, temp_edited_audio,
                   output, warned>>

\* adjusted_audio.export(TEMP_EDITED_AUDIO_PATH, format='wav')
ExportAudio ==
    /\ pc = "export"
    /\ temp_edited_audio' = TRUE
    /\ phases' = phases \cup {"export"}
    /\ pc' = "reimport"
    /\ UNCHANGED <<duration, silent_ranges, SILENCE_THRESHOLD, PADDING_LEFT,
                   PADDING_RIGHT, pretend, idx, last_end, silence_amount, clips,
                   estimate, user_response, temp_audio, output, warned>>

\* AudioFileClip(TEMP_EDITED_AUDIO_PATH) and set_audio
ReimportAudio ==
    /\ pc = "reimport"
    /\ phases' = phases \cup {"reimport"}
    /\ pc' = "write"
    /\ UNCHANGED <<duration, silent_ranges, SILENCE_THRESHOLD, PADDING_LEFT,
                   PADDING_RIGHT, pretend, idx, last_end, silence_amount, clips,
                   estimate, user_response, temp_audio, temp_edited_audio,
                   output, warned>>

\* final_video.write_videofile(OUTPUT_PATH, ...)
WriteVideo ==
    /\ pc = "write"
    /\ output' = "written"
    /\ phases' = phases \cup {"write"}
    /\ pc' = "cleanup_edited"
    /\ UNCHANGED <<duration, silent_ranges, SILENCE_THRESHOLD, PADDING_LEFT,
                   PADDING_RIGHT, pretend, idx, last_end, silence_amount, clips,
                   estimate, user_response, temp_audio, temp_edited_audio,
                   warned>>

\* The steps that call moviepy or pydub and so can raise: none of them is
\* inside a try, so the exception leaves edit_video_and_audio and main.
CanRaise ==
    \/ pc \in {"extract", "detect", "concat", "export", "reimport", "write"}
    \/ pc = "iterate" /\ ~pretend

\* A collaborator raises.  A failing write may have begun the output file.
CollaboratorRaises ==
    /\ CanRaise
    /\ output' \in IF pc = "write" THEN {"none", "partial"} ELSE {output}
    /\ temp_audio' \in IF pc = "extract" THEN {FALSE, TRUE} ELSE {temp_audio}
    /\ temp_edited_audio' \in
           IF pc = "export" THEN {FALSE, TRUE} ELSE {temp_edited_audio}
    /\ pc' = "raised"
    /\ UNCHANGED <<duration, silent_ranges, SILENCE_THRESHOLD, PADDING_LEFT,
                   PADDING_RIGHT, pretend, idx, last_end, silence_amount, clips,
                   estimate, user_response, phases, warned>>

\* try: if os.path.isfile(TEMP_EDITED_AUDIO_PATH): os.remove(...)
\* An OSError skips the second removal and prints the warning.
CleanupEdited ==
    /\ pc = "cleanup_edited"
    /\ phases' = phases \cup {"cleanup_edited"}
    /\ \/ /\ temp_edited_audio' = FALSE
          /\ pc' = "cleanup_audio"
          /\ warned' = warned
       \/ /\ temp_edited_audio
          /\ temp_edited_audio' = TRUE
          /\ warned' = TRUE
          /\ pc' = "done"
    /\ UNCHANGED <<duration, silent_ranges, SILENCE_THRESHOLD, PADDING_LEFT,
                   PADDING_RIGHT, pretend, idx, last_end, silence_amount, clips,
                   estimate, user_response, temp_audio, output>>

\* if os.path.isfile(TEMP_AUDIO_PATH): os.remove(TEMP_AUDIO_PATH)
CleanupAudio ==
    /\ pc = "cleanup_audio"
    /\ phases' = phases \cup {"cleanup_audio"}
    /\ \/ /\ temp_audio' = FALSE
          /\ warned' = warned
       \/ /\ temp_audio
          /\ temp_audio' = TRUE
          /\ warned' = TRUE
    /\ pc' = "done"
    /\ UNCHANGED <<duration, silent_ranges, SILENCE_THRESHOLD, PADDING_LEFT,
                   PADDING_RIGHT, pretend, idx, last_end, silence_amount, clips,
                   estimate, user_response, temp_edited_audio, output>>

(* --------------------------- specification ----------------------------- *)

\* The state after main() has parsed the command line.
InitFrom(runs) ==
    /\ \E r \in runs :
        /\ duration = r[1]
        /\ silent_ranges = r[2]
        /\ SILENCE_THRESHOLD = r[3]
        /\ PADDING_LEFT = r[4]
        /\ PADDING_RIGHT = r[5]
    /\ pc = "extract"
    /\ pretend = TRUE
    /\ idx = 1
    /\ last_end = 0
    /\ silence_amount = 0
    /\ clips = <<>>
    /\ estimate = 0
    /\ user_response = ""
    /\ temp_audio = FALSE
    /\ temp_edited_audio = FALSE
    /\ output = "none"
    /\ phases = {}
    /\ warned = FALSE

Init == InitFrom(WellFormedRuns)

InitMalformed == InitFrom(AnyRuns)

Next ==
    \/ ExtractAudio
    \/ DetectSilence
    \/ IterateStep
    \/ PretendReturn
    \/ Confirm
    \/ MaterializeReturn
    \/ ConcatenateClips
    \/ ExportAudio
    \/ ReimportAudio
    \/ WriteVideo
    \/ CollaboratorRaises
    \/ CleanupEdited
    \/ CleanupAudio

Spec == Init /\ [][Next]_vars

SpecMalformed == InitMalformed /\ [][Next]_vars

(* ------------------------------ claims --------------------------------- *)

\* The pretend pass has returned: estimate holds its silence_amount.
Estimated == "estimate" \in phases

\* The real pass has returned: clips holds every keep segment.
Materialized == "materialize" \in phases

\* The run is over: it returned from main() or an exception left it.
Ended == pc \in {"done", "raised"}

\* C1: in the real pass the keep segments are of non-negative length, lie
\* within [0, duration], and are ascending and pairwise non-overlapping, for
\* every well-formed silence list and non-negative settings.
KeepSegmentsOrdered ==
    ~pretend =>
        /\ \A i \in 1..Len(clips) :
               /\ 0 <= clips[i][1]
               /\ clips[i][1] <= clips[i][2]
               /\ clips[i][2] <= duration
        /\ \A i \in 1..(Len(clips) - 1) : clips[i][2] <= clips[i + 1][1]

\* The boundary example: 3000 ms, one silence (1000, 2000), 700/250/250.
BoundaryRun ==
    /\ duration = 3000
    /\ silent_ranges = <<<<1000, 2000>>>>
    /\ SILENCE_THRESHOLD = 700
    /\ PADDING_LEFT = 250
    /\ PADDING_RIGHT = 250

\* C2 as stated: the boundary example yields the keep segments [0,750) and
\* [1750,3000) and silenceRemoved = 500.
BoundaryExampleRemoves500 ==
    (BoundaryRun /\ Materialized) =>
        /\ clips = <<<<0, 750>>, <<1750, 3000>>>>
        /\ estimate = 500

\* C2 as amended: the boundary example yields the keep segments [0,750) and
\* [1750,3000) and silenceRemoved = 1000, in the estimate and in the real pass.
BoundaryExampleRemoves1000 ==
    (BoundaryRun /\ Materialized) =>
        /\ clips = <<<<0, 750>>, <<1750, 3000>>>>
        /\ estimate = 1000
        /\ silence_amount = 1000

\* C2's case: the boundary example has been materialized.
BoundaryExampleMaterialized == BoundaryRun /\ Materialized /\ Len(clips) = 2

\* The thresholds a run is compared with.
Thresholds == 0..(MaxDur + MaxThreshold) \cup {700, 1000, 1300}

\* C3: with the list and the paddings fixed, no threshold above the run's
\* own yields a larger silenceRemoved than the run's.
ThresholdMonotone ==
    Estimated =>
        \A t2 \in Thresholds :
            t2 >= SILENCE_THRESHOLD =>
                SilenceAmountOf(silent_ranges, t2, PADDING_LEFT, PADDING_RIGHT)
                    <= estimate

InSilence(t) ==
    \E i \in 1..Len(silent_ranges) :
        silent_ranges[i][1] <= t /\ t < silent_ranges[i][2]

\* Millisecond t lies in a keep segment.
Kept(t) == \E k \in 1..Len(clips) : clips[k][1] <= t /\ t < clips[k][2]

\* C5: every millisecond of the recording outside all silent ranges belongs
\* to a keep segment.
SpeechPreserved ==
    Materialized => \A t \in 0..(duration - 1) : ~InSilence(t) => Kept(t)

\* C6: a run that ended after the prompt was answered, by a decline, a
\* success or a raising collaborator, went through the removal of both
\* temporary files, and a failing removal did not raise.
CleanupAlwaysRuns ==
    (Ended /\ ("decline" \in phases \/ "confirm" \in phases)) =>
        /\ {"cleanup_edited", "cleanup_audio"} \subseteq phases
        /\ warned => pc = "done"

\* The inputs break a precondition of the walk.
Malformed ==
    ~WellFormed(duration, silent_ranges, SILENCE_THRESHOLD, PADDING_LEFT,
                PADDING_RIGHT)

\* C7: on malformed input no pass returns a plan, no keep segment is
\* emitted and silenceRemoved stays 0.
MalformedRejected ==
    Malformed =>
        /\ ~Estimated
        /\ ~Materialized
        /\ clips = <<>>
        /\ silence_amount = 0

\* C8: within a walk, processing a silence never lowers silence_amount.
SilenceAmountOnlyIncreases ==
    [][(pc = "iterate" /\ pc' = "iterate" /\ idx' = idx + 1)
           => silence_amount' >= silence_amount]_vars

\* C9: the output file is touched only after the estimate, the answer Y,
\* the real pass, the concatenation, the export and the re-import; a
\* declined run leaves no output file.
WriteOnlyAfterMaterialization ==
    /\ output # "none" =>
           /\ {"estimate", "confirm", "materialize", "concat", "export",
               "reimport"} \subseteq phases
           /\ user_response = "Y"
    /\ "decline" \in phases => output = "none"
    /\ "write" \in phases => output = "written"

\* C9's case: a run wrote its output and ended.
OutputWritten == pc = "done" /\ output = "written"

\* Total length of a list of segments.
RECURSIVE TotalLength(_)
TotalLength(segs) ==
    IF segs = <<>> THEN 0
    ELSE (Head(segs)[2] - Head(segs)[1]) + TotalLength(Tail(segs))

\* C10: the keep segments of the real pass add up to the duration less the
\* silence_amount the pretend pass returned.
EstimateMatchesResult ==
    Materialized => TotalLength(clips) = duration - estimate

\* C10's case: a real pass after an estimate that cut something, with a
\* segment before the cut and the final one.
CutMaterialized == Materialized /\ estimate > 0 /\ Len(clips) >= 2

====
